---- MODULE Spec2Model ----
(***************************************************************************)
(* Model of the DBOS/KEDA autoscaling example (src/main.go).               *)
(*                                                                         *)
(* The process serves two HTTP endpoints on top of a DBOS workflow         *)
(* backend:                                                                *)
(*   GET /metrics            -> computeExpectedPods, the number of worker  *)
(*                              pods needed by the busiest queue           *)
(*   GET /enqueue/:duration  -> enqueues one SleepWorkflow on "queue1"     *)
(*                                                                         *)
(* computeExpectedPods performs two backend reads (the queue metadata of   *)
(* the admin server, then the list of queued workflows); other requests    *)
(* and the workflow engine run between them and before the answer is       *)
(* written, so a poll is modelled as one step per backend read and one     *)
(* step for the answer.                                                    *)
(***************************************************************************)
EXTENDS Integers, Sequences, FiniteSets, TLC

VARIABLES
    registry,               \* the queues the admin endpoint reports: a JSON array
    workflows,              \* workflow_status rows per queue name and status
    pc,                     \* per /metrics request: where its handler stands
    metaOutcome,            \* per request: how the queue-metadata fetch ended
    listOutcome,            \* per request: how dbos.ListWorkflows ended
    metaCalls,              \* per request: queue-metadata fetches issued
    listCalls,              \* per request: ListWorkflows calls issued
    queuesWithConcurrency,  \* per request: local map of computeExpectedPods
    queueWorkflowCounts,    \* per request: local map of computeExpectedPods
    ret,                    \* per request: (int, error) of computeExpectedPods
    response,               \* per request: what c.JSON wrote
    failedBefore,           \* per request slot: an earlier request on it got an error
    highestAnswered         \* history kept by SpecMain, read by no handler: the
                            \* largest number answered so far

vars == << registry, workflows, pc, metaOutcome, listOutcome, metaCalls, listCalls,
           queuesWithConcurrency, queueWorkflowCounts, ret, response, failedBefore,
           highestAnswered >>

pollVars == << pc, metaOutcome, listOutcome, metaCalls, listCalls,
               queuesWithConcurrency, queueWorkflowCounts, ret, response, failedBefore,
               highestAnswered >>

----------------------------------------------------------------------------
(* Bounds of the model *)

\* rows of workflow_status, all queues and statuses together (Spec)
MaxWorkflows == 3
\* workflows submitted through /enqueue (SpecMain)
MaxEnqueued == 10
\* rows of workflow_status while two scrapes overlap (SpecOverlap)
MaxOverlapWorkflows == 2
\* largest workerConcurrency a registered queue is given (Spec)
MaxConcurrency == 3

(* Program constants *)

\* dbos.WithWorkerConcurrency(1) of queue1
Queue1Concurrency == 1
StatusOK == 200
StatusBadRequest == 400
StatusInternalServerError == 500

QueueNames == {"queue1", "queue2"}

\* the /metrics requests in flight at one time: two overlapping scrapes
Polls == {"p1", "p2"}
\* one scrape at a time
SerialPolls == {"p1"}

\* statuses of a queued workflow; ENQUEUED and PENDING are the non-terminal ones
Statuses == {"ENQUEUED", "PENDING", "SUCCESS"}

----------------------------------------------------------------------------
(* The backend *)

\* the admin endpoint's answer for the queues main registers
MainRegistry == << [name |-> "queue1", workerConcurrency |-> Queue1Concurrency] >>

\* values a decoded "workerConcurrency" takes: an int, negative ones included
ConcurrencyValues == (-1) .. MaxConcurrency

QueueMetadata == [name : QueueNames, workerConcurrency : ConcurrencyValues]

\* the arrays the admin endpoint may report: queue names are unique
Registries ==
    { << >> }
    \cup { << m >> : m \in QueueMetadata }
    \cup { << m1, m2 >> : m1 \in { m \in QueueMetadata : m.name = "queue1" },
                          m2 \in { m \in QueueMetadata : m.name = "queue2" } }

NoWorkflows == [q \in QueueNames |-> [s \in Statuses |-> 0]]

RECURSIVE SumOver(_, _)
SumOver(f, S) ==
    IF S = {} THEN 0
    ELSE LET x == CHOOSE y \in S : TRUE
         IN f[x] + SumOver(f, S \ {x})

\* rows of one queue, of all queues
RowsOf(q) == SumOver(workflows[q], Statuses)
TotalRows == SumOver([q \in QueueNames |-> RowsOf(q)], QueueNames)

----------------------------------------------------------------------------
(* Go maps *)

EmptyMap == [q \in {} |-> 0]

\* m[k] = v
MapPut(m, k, v) == [x \in (DOMAIN m) \cup {k} |-> IF x = k THEN v ELSE m[x]]

\* m[k] read of an int map: the zero value when the key is missing
MapGet(m, k) == IF k \in DOMAIN m THEN m[k] ELSE 0

\* the orders in which `range` may visit the keys of a map
Orders(S) ==
    { o \in [1 .. Cardinality(S) -> S] :
        \A i, j \in 1 .. Cardinality(S) : i # j => o[i] # o[j] }

----------------------------------------------------------------------------
(* dbos.ListWorkflows(ctx, dbos.WithQueuesOnly()) *)

Repeat(x, n) == [i \in 1 .. n |-> x]

QueueOrder == << "queue1", "queue2" >>
StatusOrder == << "ENQUEUED", "PENDING", "SUCCESS" >>

RECURSIVE RowsFrom(_, _, _)
\* the workflow_status rows that carry a queue name, as a list
RowsFrom(rows, i, j) ==
    IF i > Len(QueueOrder) THEN << >>
    ELSE IF j > Len(StatusOrder) THEN RowsFrom(rows, i + 1, 1)
    ELSE Repeat([QueueName |-> QueueOrder[i], Status |-> StatusOrder[j]],
                rows[QueueOrder[i]][StatusOrder[j]])
         \o RowsFrom(rows, i, j + 1)

\* mutant: finished workflows are listed too
IsQueuedAny(workflow) == workflow.Status \in {"ENQUEUED", "PENDING", "SUCCESS"}

\* mutant: workflows a worker has started are not listed
IsQueuedEnqueuedOnly(workflow) == workflow.Status = "ENQUEUED"

\* a workflow that is enqueued or pending
IsQueued(workflow) == workflow.Status \in {"ENQUEUED", "PENDING"}

\* mutant: the workflows of queue2 are those of an earlier instant (none yet)
ListWorkflowsStale(rows) ==
    SelectSeq(RowsFrom([rows EXCEPT !["queue2"] = NoWorkflows["queue2"]], 1, 1),
              IsQueued)

\* the workflows "that are in enqueued/pending in any queue"
ListWorkflows(rows) == SelectSeq(RowsFrom(rows, 1, 1), IsQueued)

----------------------------------------------------------------------------
(* computeExpectedPods, its pure parts *)

\* the filter of the first loop
HasConcurrency(queue) == queue.workerConcurrency > 0

RECURSIVE FilterQueuesDefaultOne(_, _, _)
\* mutant: a queue of concurrency 0 is kept, as a queue of concurrency 1
FilterQueuesDefaultOne(queueMetadataArray, i, m) ==
    IF i > Len(queueMetadataArray) THEN m
    ELSE FilterQueuesDefaultOne(queueMetadataArray, i + 1,
            IF queueMetadataArray[i].workerConcurrency >= 0
            THEN MapPut(m, queueMetadataArray[i].name,
                        IF queueMetadataArray[i].workerConcurrency = 0 THEN 1
                        ELSE queueMetadataArray[i].workerConcurrency)
            ELSE m)

RECURSIVE FilterQueues(_, _, _)
\* the first loop: queuesWithConcurrency built from queueMetadataArray
FilterQueues(queueMetadataArray, i, m) ==
    IF i > Len(queueMetadataArray) THEN m
    ELSE FilterQueues(queueMetadataArray, i + 1,
            IF HasConcurrency(queueMetadataArray[i])
            THEN MapPut(m, queueMetadataArray[i].name,
                        queueMetadataArray[i].workerConcurrency)
            ELSE m)

RECURSIVE CountWorkflows(_, _, _)
\* the second loop: queueWorkflowCounts[workflow.QueueName]++
CountWorkflows(allWorkflows, i, m) ==
    IF i > Len(allWorkflows) THEN m
    ELSE CountWorkflows(allWorkflows, i + 1,
            MapPut(m, allWorkflows[i].QueueName,
                   MapGet(m, allWorkflows[i].QueueName) + 1))

\* mutant: the remainder is taken where the quotient is meant
ExpectedPodsRemainder(queueLength, workerConcurrency) ==
    IF workerConcurrency < 0 THEN 0
    ELSE queueLength % workerConcurrency

\* int(math.Ceil(float64(queueLength) / float64(workerConcurrency))),
\* exact for operands below 2^53; queueLength >= 0. The loop calls it with
\* workerConcurrency > 0 only; a negative divisor gives a quotient <= 0, whose
\* ceiling is minus the floor of its absolute value.
ExpectedPods(queueLength, workerConcurrency) ==
    IF workerConcurrency < 0
    THEN 0 - (queueLength \div (0 - workerConcurrency))
    ELSE IF queueLength % workerConcurrency = 0
    THEN queueLength \div workerConcurrency
    ELSE (queueLength \div workerConcurrency) + 1

\* mutant: the queue visited last decides
AccumulateLast(maxExpectedPods, expectedPods) == expectedPods

\* mutant: the demands are summed
AccumulateSum(maxExpectedPods, expectedPods) == maxExpectedPods + expectedPods

\* one iteration of the third loop
Accumulate(maxExpectedPods, expectedPods) ==
    IF expectedPods > maxExpectedPods THEN expectedPods ELSE maxExpectedPods

RECURSIVE MaxExpectedPods(_, _, _, _, _)
\* the third loop, visiting the keys in the order `order`, from maxExpectedPods
MaxExpectedPods(qwc, counts, order, i, maxExpectedPods) ==
    IF i > Len(order) THEN maxExpectedPods
    ELSE MaxExpectedPods(qwc, counts, order, i + 1,
            Accumulate(maxExpectedPods,
                       ExpectedPods(MapGet(counts, order[i]), qwc[order[i]])))

\* mutant: no floor
AtLeastOneMissing(maxExpectedPods) == maxExpectedPods

\* "Ensure at least 1 pod"
AtLeastOne(maxExpectedPods) == IF maxExpectedPods < 1 THEN 1 ELSE maxExpectedPods

\* (int, error) values
NoRet == [value |-> 0, err |-> "unset"]
Ok(value) == [value |-> value, err |-> "nil"]

\* mutant: a failed backend read is issued again
RetryOnError(at, msg) == [pc |-> at, ret |-> NoRet]

\* where a failed backend read leaves the poll: return 0, fmt.Errorf(...)
ErrorReturn(at, msg) == [pc |-> "answer", ret |-> [value |-> 0, err |-> msg]]

\* the error of each way the queue-metadata fetch fails
MetaOutcomes == {"ok", "transport", "status", "decode"}
MetaError(outcome) ==
    CASE outcome = "transport" -> "failed to fetch queue metadata"
      [] outcome = "status"    -> "admin endpoint returned status"
      [] outcome = "decode"    -> "failed to decode queue metadata"

ListOutcomes == {"ok", "error"}
ListError == "failed to list workflows"

\* mutant: nothing to scale against gives 0
DefaultPodsZero == Ok(0)

\* "Default to 1 pod if no queues with concurrency"
DefaultPods == Ok(1)

\* mutant: once a poll has failed, the error is kept and returned again
AfterMetadataSticky(queueMetadataArray) ==
    LET qwc == FilterQueues(queueMetadataArray, 1, EmptyMap)
    IN  IF \E p \in Polls : pc[p] = "fetch" /\ failedBefore[p]
        THEN [pc |-> "answer", ret |-> [value |-> 0, err |-> ListError], qwc |-> qwc]
        ELSE IF Cardinality(DOMAIN qwc) = 0
        THEN [pc |-> "answer", ret |-> DefaultPods, qwc |-> qwc]
        ELSE [pc |-> "list", ret |-> NoRet, qwc |-> qwc]

\* what the poll does once the metadata is decoded into queueMetadataArray
AfterMetadata(queueMetadataArray) ==
    LET qwc == FilterQueues(queueMetadataArray, 1, EmptyMap)
    IN  IF Cardinality(DOMAIN qwc) = 0
        THEN [pc |-> "answer", ret |-> DefaultPods, qwc |-> qwc]
        ELSE [pc |-> "list", ret |-> NoRet, qwc |-> qwc]

\* mutant: maxExpectedPods is one variable of the package, which the polls
\* share and none resets: the loop starts from the largest value returned
ComputeFromSharedMax(qwc, counts, order) ==
    LET seen == {0} \cup { ret[r].value : r \in { x \in Polls : ret[x].err = "nil" } }
        start == CHOOSE x \in seen : \A y \in seen : y <= x
    IN  Ok(AtLeastOne(MaxExpectedPods(qwc, counts, order, 1, start)))

\* the value computed once the workflows are listed
ComputeFrom(qwc, counts, order) ==
    Ok(AtLeastOne(MaxExpectedPods(qwc, counts, order, 1, 0)))

----------------------------------------------------------------------------
(* The /metrics handler *)

NoResponse == [status |-> 0, body |-> [pending |-> TRUE]]

\* mutant: the value returned next to the error is written out as well
MetricsHandlerValueOnError(r) ==
    IF r.err # "nil"
    THEN [status |-> StatusInternalServerError,
          body |-> [error |-> r.err, expected_pods |-> r.value]]
    ELSE [status |-> StatusOK, body |-> [expected_pods |-> r.value]]

\* the body of r.GET("/metrics", ...) after computeExpectedPods returned r
MetricsHandler(r) ==
    IF r.err # "nil"
    THEN [status |-> StatusInternalServerError, body |-> [error |-> r.err]]
    ELSE [status |-> StatusOK, body |-> [expected_pods |-> r.value]]

\* computeExpectedPods goes on to its second read, or returns next.ret
Return(p, next) ==
    /\ pc' = [pc EXCEPT ![p] = next.pc]
    /\ ret' = [ret EXCEPT ![p] = next.ret]
    /\ UNCHANGED << response, highestAnswered >>

\* c.JSON: the handler writes out what computeExpectedPods returned; the
\* history of the answers is kept where `recorded` says so
Respond(p, recorded) ==
    /\ pc[p] = "answer"
    /\ pc' = [pc EXCEPT ![p] = "done"]
    /\ response' = [response EXCEPT ![p] = MetricsHandler(ret[p])]
    /\ highestAnswered' =
            IF recorded /\ ret[p].err = "nil" /\ ret[p].value > highestAnswered
            THEN ret[p].value ELSE highestAnswered
    /\ UNCHANGED << registry, workflows, metaOutcome, listOutcome, metaCalls,
                    listCalls, queuesWithConcurrency, queueWorkflowCounts, ret,
                    failedBefore >>

\* GET /metrics arrives: the handler starts with fresh locals
MetricsRequest(p) ==
    /\ pc[p] \in {"idle", "done"}
    /\ pc' = [pc EXCEPT ![p] = "fetch"]
    /\ failedBefore' = [failedBefore EXCEPT ![p] =
            pc[p] = "done" /\ response[p].status = StatusInternalServerError]
    /\ metaOutcome' = [metaOutcome EXCEPT ![p] = "none"]
    /\ listOutcome' = [listOutcome EXCEPT ![p] = "none"]
    /\ metaCalls' = [metaCalls EXCEPT ![p] = 0]
    /\ listCalls' = [listCalls EXCEPT ![p] = 0]
    /\ queuesWithConcurrency' = [queuesWithConcurrency EXCEPT ![p] = EmptyMap]
    /\ queueWorkflowCounts' = [queueWorkflowCounts EXCEPT ![p] = EmptyMap]
    /\ ret' = [ret EXCEPT ![p] = NoRet]
    /\ response' = [response EXCEPT ![p] = NoResponse]
    /\ UNCHANGED << registry, workflows, highestAnswered >>

\* http.Get of the queue metadata, the status check, the decoding, the filter
FetchQueueMetadata(p) ==
    /\ pc[p] = "fetch"
    /\ \E outcome \in MetaOutcomes :
         LET next == IF outcome = "ok"
                     THEN AfterMetadata(registry)
                     ELSE ErrorReturn("fetch", MetaError(outcome)) @@ [qwc |-> EmptyMap]
         IN  /\ metaOutcome' = [metaOutcome EXCEPT ![p] = outcome]
             /\ metaCalls' = [metaCalls EXCEPT ![p] = @ + 1]
             /\ queuesWithConcurrency' = [queuesWithConcurrency EXCEPT ![p] = next.qwc]
             /\ Return(p, next)
    /\ UNCHANGED << registry, workflows, listOutcome, listCalls,
                    queueWorkflowCounts, failedBefore >>

\* dbos.ListWorkflows, then on the list read: the count per queue, the
\* maximum, the floor of 1
ListAndCompute(p) ==
    /\ pc[p] = "list"
    /\ \E outcome \in ListOutcomes :
       \E order \in Orders(DOMAIN queuesWithConcurrency[p]) :
         LET counts == IF outcome = "ok"
                       THEN CountWorkflows(ListWorkflows(workflows), 1, EmptyMap)
                       ELSE EmptyMap
             next == IF outcome = "ok"
                     THEN [pc |-> "answer",
                           ret |-> ComputeFrom(queuesWithConcurrency[p], counts, order)]
                     ELSE ErrorReturn("list", ListError)
         IN  /\ listOutcome' = [listOutcome EXCEPT ![p] = outcome]
             /\ listCalls' = [listCalls EXCEPT ![p] = @ + 1]
             /\ queueWorkflowCounts' = [queueWorkflowCounts EXCEPT ![p] = counts]
             /\ Return(p, next)
    /\ UNCHANGED << registry, workflows, metaOutcome, metaCalls,
                    queuesWithConcurrency, failedBefore >>

----------------------------------------------------------------------------
(* The /enqueue handler and the workflow engine *)

Digits == {"0", "1", "2", "3", "4", "5", "6", "7", "8", "9"}

\* the decimal digits in ascending order
DigitOrder == << "0", "1", "2", "3", "4", "5", "6", "7", "8", "9" >>

DigitValue(c) == (CHOOSE n \in 1 .. Len(DigitOrder) : DigitOrder[n] = c) - 1

\* the largest int of a 64-bit build, 9223372036854775807, digit by digit
MaxIntDigits ==
    << "9", "2", "2", "3", "3", "7", "2", "0", "3", "6",
       "8", "5", "4", "7", "7", "5", "8", "0", "7" >>

\* the magnitude of the smallest int, 9223372036854775808
MinIntDigits ==
    << "9", "2", "2", "3", "3", "7", "2", "0", "3", "6",
       "8", "5", "4", "7", "7", "5", "8", "0", "8" >>

RECURSIVE StripZeros(_)
\* a digit string without its leading zeros
StripZeros(d) ==
    IF Len(d) > 1 /\ d[1] = "0" THEN StripZeros(Tail(d)) ELSE d

RECURSIVE DigitsLeq(_, _, _)
\* a <= b for digit strings of one length, compared from position i on
DigitsLeq(a, b, i) ==
    IF i > Len(a) THEN TRUE
    ELSE IF a[i] = b[i] THEN DigitsLeq(a, b, i + 1)
    ELSE DigitValue(a[i]) < DigitValue(b[i])

\* whether the number written d, without leading zeros, is at most limit
AtMost(d, limit) ==
    \/ Len(d) < Len(limit)
    \/ Len(d) = Len(limit) /\ DigitsLeq(d, limit, 1)

\* whether strconv.Atoi accepts s: an optional sign, then digits, the value
\* within the range of int
AtoiOk(s) ==
    LET neg == Len(s) > 0 /\ s[1] = "-"
        d == IF Len(s) > 0 /\ s[1] \in {"+", "-"} THEN Tail(s) ELSE s
    IN  /\ Len(d) > 0
        /\ \A i \in 1 .. Len(d) : d[i] \in Digits
        /\ AtMost(StripZeros(d), IF neg THEN MinIntDigits ELSE MaxIntDigits)

\* the :duration path parameters tried: in range, not a number, empty, and
\* the values around both ends of the range of int
DurationParams ==
    { << "3", "0" >>, << "-", "1" >>, << "a" >>, << >>,
      MaxIntDigits, MinIntDigits,
      << "-" >> \o MinIntDigits, << "-" >> \o MaxIntDigits \o << "0" >>,
      << "0" >> \o MaxIntDigits }

RunOutcomes == {"ok", "error"}

\* the status GET /enqueue/:duration answers with
EnqueueStatus(durationStr, runOutcome) ==
    IF ~AtoiOk(durationStr) THEN StatusBadRequest
    ELSE IF runOutcome # "ok" THEN StatusInternalServerError
    ELSE StatusOK

\* one more row of queue q in status s, one row moved from s to t
AddRow(rows, q, s) == [rows EXCEPT ![q][s] = @ + 1]
MoveRow(rows, q, s, t) == [rows EXCEPT ![q][s] = @ - 1, ![q][t] = @ + 1]

\* GET /enqueue/:duration: dbos.RunWorkflow(..., dbos.WithQueue(queue.Name));
\* a rejected duration or a failed RunWorkflow leaves the backend as it is
EnqueueHandler(cap) ==
    /\ TotalRows < cap
    /\ \E status \in { EnqueueStatus(durationStr, runOutcome) :
                            durationStr \in DurationParams,
                            runOutcome \in RunOutcomes } :
         workflows' = IF status = StatusOK
                      THEN AddRow(workflows, "queue1", "ENQUEUED")
                      ELSE workflows
    /\ UNCHANGED << registry, pollVars >>

\* a workflow enqueued on another queue by another client of the backend
ForeignEnqueue(cap) ==
    /\ TotalRows < cap
    /\ workflows' = AddRow(workflows, "queue2", "ENQUEUED")
    /\ UNCHANGED << registry, pollVars >>

\* a worker dequeues a workflow and starts it
Dequeue(q) ==
    /\ workflows[q]["ENQUEUED"] > 0
    /\ workflows' = MoveRow(workflows, q, "ENQUEUED", "PENDING")
    /\ UNCHANGED << registry, pollVars >>

\* SleepWorkflow returns
Complete(q) ==
    /\ workflows[q]["PENDING"] > 0
    /\ workflows' = MoveRow(workflows, q, "PENDING", "SUCCESS")
    /\ UNCHANGED << registry, pollVars >>

----------------------------------------------------------------------------
(* Specifications *)

InitPolls ==
    /\ pc = [p \in Polls |-> "idle"]
    /\ metaOutcome = [p \in Polls |-> "none"]
    /\ listOutcome = [p \in Polls |-> "none"]
    /\ metaCalls = [p \in Polls |-> 0]
    /\ listCalls = [p \in Polls |-> 0]
    /\ queuesWithConcurrency = [p \in Polls |-> EmptyMap]
    /\ queueWorkflowCounts = [p \in Polls |-> EmptyMap]
    /\ ret = [p \in Polls |-> NoRet]
    /\ response = [p \in Polls |-> NoResponse]
    /\ failedBefore = [p \in Polls |-> FALSE]
    /\ highestAnswered = 0

\* any registry, one scrape at a time, workflows on every queue
Init ==
    /\ registry \in Registries
    /\ workflows = NoWorkflows
    /\ InitPolls

Next ==
    \/ \E p \in SerialPolls : MetricsRequest(p)
    \/ \E p \in SerialPolls : FetchQueueMetadata(p)
    \/ \E p \in SerialPolls : ListAndCompute(p)
    \/ \E p \in SerialPolls : Respond(p, FALSE)
    \/ EnqueueHandler(MaxWorkflows)
    \/ ForeignEnqueue(MaxWorkflows)
    \/ \E q \in QueueNames : Dequeue(q)
    \/ \E q \in QueueNames : Complete(q)

Spec == Init /\ [][Next]_vars

\* queue1 alone, with the worker concurrency main gives it or another one
MainRegistries ==
    { << [name |-> "queue1", workerConcurrency |-> c] >> : c \in 1 .. MaxConcurrency }

\* the submissions followed: MaxEnqueued of them with main's own registry
MainCap == IF registry = MainRegistry THEN MaxEnqueued ELSE MaxWorkflows

\* the program as main runs it: queue1 alone, one scrape after the other
InitMain ==
    /\ registry \in MainRegistries
    /\ workflows = NoWorkflows
    /\ InitPolls

NextMain ==
    \/ \E p \in SerialPolls : MetricsRequest(p)
    \/ \E p \in SerialPolls : FetchQueueMetadata(p)
    \/ \E p \in SerialPolls : ListAndCompute(p)
    \/ \E p \in SerialPolls : Respond(p, TRUE)
    \/ EnqueueHandler(MainCap)
    \/ \E q \in QueueNames : Dequeue(q)
    \/ \E q \in QueueNames : Complete(q)

SpecMain == InitMain /\ [][NextMain]_vars

\* the worker concurrency of the queues while two scrapes overlap
OverlapConcurrency == {1, 2}

\* two overlapping scrapes of a backend with two capped queues
InitOverlap ==
    /\ registry \in { reg \in Registries :
                        /\ Len(reg) = 2
                        /\ \A i \in DOMAIN reg :
                              reg[i].workerConcurrency \in OverlapConcurrency }
    /\ workflows = NoWorkflows
    /\ InitPolls

NextOverlap ==
    \/ \E p \in Polls : MetricsRequest(p)
    \/ \E p \in Polls : FetchQueueMetadata(p)
    \/ \E p \in Polls : ListAndCompute(p)
    \/ \E p \in Polls : Respond(p, FALSE)
    \/ EnqueueHandler(MaxOverlapWorkflows)
    \/ ForeignEnqueue(MaxOverlapWorkflows)
    \/ \E q \in QueueNames : Dequeue(q)
    \/ \E q \in QueueNames : Complete(q)

SpecOverlap == InitOverlap /\ [][NextOverlap]_vars

----------------------------------------------------------------------------
(* The scaling policy, stated independently of the code *)

\* the registered queue names, the concurrency of one
Names(reg) == { reg[i].name : i \in DOMAIN reg }
ConcurrencyOf(reg, q) ==
    reg[CHOOSE i \in DOMAIN reg : reg[i].name = q].workerConcurrency

\* queues that take part in the computation
CandidateSet(reg) == { q \in Names(reg) : ConcurrencyOf(reg, q) > 0 }

\* backlog(q), 0 when the mapping has no entry
BacklogOf(counts, q) == IF q \in DOMAIN counts THEN counts[q] ELSE 0

\* ceil(n / c): the least k with k * c >= n
CeilDiv(n, c) ==
    CHOOSE k \in 0 .. n : k * c >= n /\ \A j \in 0 .. n : j * c >= n => k <= j

SetMax(S) == CHOOSE x \in S : \A y \in S : y <= x

Demand(reg, counts, q) == CeilDiv(BacklogOf(counts, q), ConcurrencyOf(reg, q))

\* max(1, max over the candidate queues of their demand)
Estimate(reg, counts) ==
    SetMax({1} \cup { Demand(reg, counts, q) : q \in CandidateSet(reg) })

\* the non-terminal workflows of queue q in the backend
Backlog(rows, q) == rows[q]["ENQUEUED"] + rows[q]["PENDING"]

\* the backlog mapping of the backend: no entry for a queue without backlog
BacklogMap(rows) ==
    [q \in { x \in QueueNames : Backlog(rows, x) > 0 } |-> Backlog(rows, q)]

\* a 200 answer carrying n
Metric(n) == [status |-> StatusOK, body |-> [expected_pods |-> n]]

\* computeExpectedPods has returned
Returned(p) == pc[p] \in {"answer", "done"}
\* and the answer is written
Finished(p) == pc[p] = "done"
\* a poll whose two backend reads both succeeded
Listed(p) == Finished(p) /\ metaOutcome[p] = "ok" /\ listOutcome[p] = "ok"
\* a poll that returned without a failed backend read
Succeeded(p) == Finished(p) /\ metaOutcome[p] = "ok" /\ listOutcome[p] # "error"

----------------------------------------------------------------------------
(* C1: with at least one queue of concurrency > 0, a successful poll       *)
(* returns max(1, max over those queues of ceil(backlog / concurrency)):   *)
(* the maximum of the demands, not their sum, rounded up.                  *)
C1_MaxOfCeilings ==
    \A p \in Polls :
        Listed(p) =>
            response[p] = Metric(Estimate(registry, queueWorkflowCounts[p]))

\* two candidate queues with demands >= 1, one of them rounded up, and the
\* answer below the sum of the demands
C1_Witness ==
    \E p \in Polls :
        /\ Listed(p)
        /\ CandidateSet(registry) = QueueNames
        /\ \A q \in QueueNames : Demand(registry, queueWorkflowCounts[p], q) >= 1
        /\ \E q \in QueueNames :
              BacklogOf(queueWorkflowCounts[p], q) % ConcurrencyOf(registry, q) # 0
        /\ response[p].body.expected_pods
              < Demand(registry, queueWorkflowCounts[p], "queue1")
                + Demand(registry, queueWorkflowCounts[p], "queue2")

(* C2: every poll that returns a value returns an integer >= 1.            *)
C2_AtLeastOne ==
    \A p \in Polls :
        /\ (Returned(p) /\ ret[p].err = "nil") => ret[p].value >= 1
        /\ "expected_pods" \in DOMAIN response[p].body =>
              /\ response[p].body.expected_pods \in Int
              /\ response[p].body.expected_pods >= 1

\* the floor acted: candidate queues exist, none has backlog, the answer is 1
C2_Witness ==
    \E p \in Polls :
        /\ Listed(p)
        /\ queueWorkflowCounts[p] = EmptyMap
        /\ response[p] = Metric(1)

----------------------------------------------------------------------------
(* Inputs that differ only in queues of concurrency 0 *)

\* reg without its i-th entry
RemoveAt(reg, i) == SubSeq(reg, 1, i - 1) \o SubSeq(reg, i + 1, Len(reg))

ZeroQueues(reg) == { q \in Names(reg) : ConcurrencyOf(reg, q) = 0 }

\* reg with one concurrency-0 queue removed or added
ZeroVariantsOfRegistry(reg) ==
    {reg}
    \cup { RemoveAt(reg, i) : i \in { j \in DOMAIN reg : reg[j].workerConcurrency = 0 } }
    \cup { Append(reg, [name |-> q, workerConcurrency |-> 0]) :
             q \in QueueNames \ Names(reg) }

\* counts with the backlog of one queue removed or set to b
WithBacklog(counts, q, b) ==
    [x \in IF b = 0 THEN (DOMAIN counts) \ {q} ELSE (DOMAIN counts) \cup {q} |->
        IF x = q THEN b ELSE counts[x]]

\* counts with the backlog of concurrency-0 (or unregistered) queues changed
ZeroVariantsOfCounts(reg, counts) ==
    {counts}
    \cup { WithBacklog(counts, q, b) :
             q \in QueueNames \ CandidateSet(reg), b \in 0 .. (MaxWorkflows + 1) }

\* what computeExpectedPods returns on a registry and a backlog mapping when
\* both reads succeed
PollValue(reg, counts) ==
    LET next == AfterMetadata(reg)
    IN  IF next.pc = "answer" THEN next.ret
        ELSE ComputeFrom(next.qwc, counts,
                         CHOOSE o \in Orders(DOMAIN next.qwc) : TRUE)

(* C3: queues of concurrency 0 never change the result: adding or removing *)
(* such a queue, or changing its backlog, leaves the returned value as is. *)
C3_ZeroConcurrencyIgnored ==
    \A p \in Polls :
        Succeeded(p) =>
            \A reg \in ZeroVariantsOfRegistry(registry) :
            \A counts \in ZeroVariantsOfCounts(registry, queueWorkflowCounts[p]) :
                PollValue(reg, counts) = ret[p]

\* a concurrency-0 queue with backlog next to a candidate queue with less
C3_Witness ==
    \E p \in Polls :
        /\ Listed(p)
        /\ \E z \in ZeroQueues(registry) : \E q \in CandidateSet(registry) :
              BacklogOf(queueWorkflowCounts[p], z)
                > BacklogOf(queueWorkflowCounts[p], q)
        /\ response[p].status = StatusOK

----------------------------------------------------------------------------
NegativeQueues(reg) == { q \in Names(reg) : ConcurrencyOf(reg, q) < 0 }

(* C4: a negative workerConcurrency in the backend's answer makes the poll *)
(* fail with an error and no number, instead of being passed over.         *)
C4_NegativeRejected ==
    \A p \in Polls :
        (Finished(p) /\ metaOutcome[p] = "ok" /\ NegativeQueues(registry) # {}) =>
            /\ response[p].status = StatusInternalServerError
            /\ "expected_pods" \notin DOMAIN response[p].body

\* a queue of negative concurrency with backlog, and a number returned
C4_Witness ==
    \E p \in Polls :
        /\ Listed(p)
        /\ \E q \in NegativeQueues(registry) :
              BacklogOf(queueWorkflowCounts[p], q) > 0
        /\ response[p].status = StatusOK

----------------------------------------------------------------------------
(* C5: when no registered queue has workerConcurrency > 0 (none registered, *)
(* or all of concurrency 0) the poll returns 1 without error, whatever the  *)
(* backlog is, and without listing the workflows.                           *)
C5_EmptyCandidateSet ==
    \A p \in Polls :
        /\ (Returned(p) /\ metaOutcome[p] = "ok" /\ CandidateSet(registry) = {}) =>
              /\ ret[p] = Ok(1)
              /\ listCalls[p] = 0
        /\ (Finished(p) /\ metaOutcome[p] = "ok" /\ CandidateSet(registry) = {}) =>
              response[p] = Metric(1)

\* a registry of a concurrency-0 queue only, backlog in the backend, answer 1
C5_Witness ==
    \E p \in Polls :
        /\ Finished(p) /\ metaOutcome[p] = "ok"
        /\ registry # << >>
        /\ NegativeQueues(registry) = {}
        /\ CandidateSet(registry) = {}
        /\ \E q \in ZeroQueues(registry) : Backlog(workflows, q) > 0
        /\ response[p] = Metric(1)

----------------------------------------------------------------------------
\* the step in which poll p reads the workflow list
ListsNow(p) == pc[p] = "list" /\ pc'[p] = "answer" /\ listOutcome'[p] = "ok"

\* the step in which computeExpectedPods returns without a failed backend
\* read
ReturnsNow(p) ==
    /\ ~Returned(p) /\ pc'[p] = "answer"
    /\ metaOutcome'[p] = "ok" /\ listOutcome'[p] # "error"

\* the step in which poll p is answered, with a number or with an error
AnswersNow(p) == pc[p] # "done" /\ pc'[p] = "done"

\* the answer is written after computeExpectedPods returned, and carries
\* the number returned, whatever the backend holds by then
AnswersWhatReturned(p) ==
    AnswersNow(p) =>
        /\ pc[p] = "answer"
        /\ ret'[p] = ret[p]
        /\ ret[p].err = "nil" => response'[p] = Metric(ret[p].value)

\* candidate queues without a non-terminal workflow in the backend
Idle(reg, rows) == { q \in CandidateSet(reg) : Backlog(rows, q) = 0 }

(* C6: a queue of concurrency > 0 without non-terminal workflow has no     *)
(* entry in the backlog mapping, counts as backlog 0 and is no error: the  *)
(* poll returns what the other candidate queues demand, and exactly 1 when *)
(* every candidate queue is without backlog.                               *)
C6_NoBacklogIsZero ==
    [][ \A p \in Polls :
          /\ ListsNow(p) =>
                /\ \A q \in Idle(registry, workflows) :
                      q \notin DOMAIN queueWorkflowCounts'[p]
                /\ ret'[p].err = "nil"
                /\ ret'[p].value =
                      SetMax({1} \cup
                          { CeilDiv(Backlog(workflows, q), ConcurrencyOf(registry, q)) :
                              q \in CandidateSet(registry) \ Idle(registry, workflows) })
                /\ Idle(registry, workflows) = CandidateSet(registry) =>
                      ret'[p] = Ok(1)
          /\ AnswersWhatReturned(p) ]_vars

\* a candidate queue whose workflows have all finished, and the answer 1
C6_Witness ==
    \E p \in Polls :
        /\ Listed(p)
        /\ response[p] = Metric(1)
        /\ \E q \in CandidateSet(registry) :
              /\ q \notin DOMAIN queueWorkflowCounts[p]
              /\ workflows[q]["SUCCESS"] > 0
              /\ Backlog(workflows, q) = 0

----------------------------------------------------------------------------
(* C7: with queue1 alone, of concurrency c, a poll that lists n             *)
(* non-terminal workflows returns max(1, ceil(n / c)), whatever submissions *)
(* and completions led to n, and is answered that number: with main's       *)
(* concurrency 1 it is 10 after 10 submissions of which none has finished.  *)
(* Once every submitted workflow has finished the queue stays drained until *)
(* the next submission; a poll that listed before may still be answered the *)
(* older number, and every poll that lists from then on is answered 1.      *)
C7_EndToEnd ==
    /\ [][ \A p \in Polls :
            /\ ListsNow(p) =>
                  /\ ret'[p] =
                        Ok(SetMax({1, CeilDiv(Backlog(workflows, "queue1"),
                                              ConcurrencyOf(registry, "queue1"))}))
                  /\ (registry = MainRegistry /\ Backlog(workflows, "queue1") = 10)
                        => ret'[p] = Ok(10)
                  /\ Backlog(workflows, "queue1") = 0 =>
                        /\ ret'[p] = Ok(1)
                        /\ queueWorkflowCounts'[p] = EmptyMap
            /\ AnswersWhatReturned(p)
            /\ (Backlog(workflows, "queue1") = 0
                  /\ RowsOf("queue1")' = RowsOf("queue1"))
                  => Backlog(workflows, "queue1")' = 0 ]_vars
    /\ [](\A p \in Polls :
            (Listed(p) /\ queueWorkflowCounts[p] = EmptyMap) => response[p] = Metric(1))

\* a poll was answered 10, which takes all 10 submitted workflows queued or
\* running; the latest poll listed none, as all 10 had finished by then, and
\* was answered 1
C7_Witness ==
    \E p \in Polls :
        /\ registry = MainRegistry
        /\ highestAnswered = 10
        /\ Listed(p) /\ response[p] = Metric(1)
        /\ queueWorkflowCounts[p] = EmptyMap
        /\ workflows["queue1"] = [ENQUEUED |-> 0, PENDING |-> 0, SUCCESS |-> 10]

----------------------------------------------------------------------------
(* C8: a failed poll is answered with status 500 and an error message and *)
(* no metric value, not even the 0 returned next to the error; a metric   *)
(* value is written only with status 200 and only by a poll that worked.  *)
C8_NoMetricOnError ==
    \A p \in Polls :
        /\ (Finished(p) /\ ret[p].err # "nil") =>
              /\ ret[p].value = 0
              /\ response[p].status = StatusInternalServerError
              /\ DOMAIN response[p].body = {"error"}
              /\ response[p].body.error = ret[p].err
        /\ "expected_pods" \in DOMAIN response[p].body =>
              /\ response[p].status = StatusOK
              /\ Succeeded(p)
        /\ response[p].status = StatusOK =>
              DOMAIN response[p].body = {"expected_pods"}

\* the listing failed and the answer is a 500
C8_Witness ==
    \E p \in Polls :
        /\ Finished(p)
        /\ listOutcome[p] = "error"
        /\ response[p].status = StatusInternalServerError

----------------------------------------------------------------------------
(* C9: a poll issues each backend query at most once, and a failed query  *)
(* (transport error, status other than 200, undecodable payload, listing  *)
(* error) ends the poll with an error instead of a number.                *)
C9_NoRetry ==
    \A p \in Polls :
        /\ metaCalls[p] <= 1
        /\ listCalls[p] <= 1
        /\ metaOutcome[p] \in {"transport", "status", "decode"} =>
              Returned(p) /\ listCalls[p] = 0
        /\ listOutcome[p] = "error" => Returned(p)
        /\ (Returned(p) /\ (metaOutcome[p] # "ok" \/ listOutcome[p] = "error")) =>
              ret[p].err # "nil"
        /\ (Finished(p) /\ (metaOutcome[p] # "ok" \/ listOutcome[p] = "error")) =>
              /\ response[p].status = StatusInternalServerError
              /\ "expected_pods" \notin DOMAIN response[p].body

\* the payload could not be decoded: one fetch, no listing, an error
C9_Witness ==
    \E p \in Polls :
        /\ Finished(p)
        /\ metaOutcome[p] = "decode"
        /\ metaCalls[p] = 1 /\ listCalls[p] = 0
        /\ response[p].status = StatusInternalServerError

----------------------------------------------------------------------------
(* C10: whatever polls failed or succeeded before, a poll whose backend   *)
(* reads succeed returns the value that the registry and the backlog of   *)
(* that moment determine; no value and no error is carried over.          *)
C10_PollsIndependent ==
    [][ \A p \in Polls :
          /\ ReturnsNow(p) =>
                ret'[p] = Ok(Estimate(registry, BacklogMap(workflows)))
          /\ AnswersWhatReturned(p) ]_vars

\* the request before this one was answered with an error, this one with a
\* value above the floor
C10_Witness ==
    \E p \in Polls :
        /\ failedBefore[p]
        /\ Succeeded(p)
        /\ response[p].status = StatusOK
        /\ response[p].body.expected_pods > 1

----------------------------------------------------------------------------
(* C12: the estimate is deterministic: on the concurrency and backlog     *)
(* mappings of a poll, the third loop gives the value the poll returned   *)
(* in whichever order it visits the queues, queues of equal demand        *)
(* included.                                                              *)
C12_OrderIndependent ==
    \A p \in Polls :
        Listed(p) =>
            \A order \in Orders(DOMAIN queuesWithConcurrency[p]) :
                ComputeFrom(queuesWithConcurrency[p], queueWorkflowCounts[p], order)
                    = ret[p]

\* two candidate queues of different demand, so that two orders exist and
\* the larger demand is met first in one and last in the other
C12_Witness ==
    \E p \in Polls :
        /\ Listed(p)
        /\ DOMAIN queuesWithConcurrency[p] = QueueNames
        /\ Demand(registry, queueWorkflowCounts[p], "queue1")
              # Demand(registry, queueWorkflowCounts[p], "queue2")
        /\ \A q \in QueueNames : Demand(registry, queueWorkflowCounts[p], q) >= 1

----------------------------------------------------------------------------
\* the backlog mappings one workflow away from counts, above and below
BacklogRaised(counts) ==
    { WithBacklog(counts, q, BacklogOf(counts, q) + 1) : q \in QueueNames }
BacklogLowered(counts) ==
    { WithBacklog(counts, q, BacklogOf(counts, q) - 1) :
        q \in { x \in QueueNames : BacklogOf(counts, x) > 0 } }

(* C13: with the concurrency limits fixed, one more non-terminal workflow *)
(* in any queue never lowers the returned value, one less never raises it. *)
C13_Monotonic ==
    \A p \in Polls :
        Succeeded(p) =>
            /\ \A more \in BacklogRaised(queueWorkflowCounts[p]) :
                  PollValue(registry, more).value >= ret[p].value
            /\ \A less \in BacklogLowered(queueWorkflowCounts[p]) :
                  PollValue(registry, less).value <= ret[p].value

\* a poll above the floor whose value grows with one more workflow in some
\* queue, and stays with one more in another
C13_Witness ==
    \E p \in Polls :
        /\ Listed(p)
        /\ ret[p].value > 1
        /\ \E more \in BacklogRaised(queueWorkflowCounts[p]) :
              PollValue(registry, more).value > ret[p].value
        /\ \E more \in BacklogRaised(queueWorkflowCounts[p]) :
              PollValue(registry, more).value = ret[p].value

----------------------------------------------------------------------------
(* C14: a poll lists the workflows in one query, after the queue metadata *)
(* was fetched and filtered, and has no result before; workflows are      *)
(* submitted and finished meanwhile, and still the counts of all queues   *)
(* are those of the backend at the one instant of the listing, and the    *)
(* result is the estimate for the backlog of that instant.                *)
C14_SingleInstant ==
    /\ [](\A p \in Polls :
            /\ listCalls[p] <= 1
            /\ listCalls[p] = 1 =>
                  /\ metaCalls[p] = 1 /\ metaOutcome[p] = "ok"
                  /\ DOMAIN queuesWithConcurrency[p] = CandidateSet(registry)
            /\ pc[p] \in {"fetch", "list"} =>
                  /\ response[p] = NoResponse
                  /\ ret[p] = NoRet
                  /\ queueWorkflowCounts[p] = EmptyMap
            /\ pc[p] = "answer" => response[p] = NoResponse)
    /\ [][ \A p \in Polls :
            /\ ListsNow(p) =>
                  /\ queueWorkflowCounts'[p] = BacklogMap(workflows)
                  /\ ret'[p] = Ok(Estimate(registry, BacklogMap(workflows)))
            /\ AnswersNow(p) =>
                  /\ queueWorkflowCounts'[p] = queueWorkflowCounts[p]
                  /\ AnswersWhatReturned(p) ]_vars

\* a poll counted workflows of both queues, and the backend has moved on
\* in both queues since
C14_Witness ==
    \E p \in Polls :
        /\ Listed(p)
        /\ DOMAIN queueWorkflowCounts[p] = QueueNames
        /\ CandidateSet(registry) = QueueNames
        /\ \A q \in QueueNames :
              Backlog(workflows, q) # queueWorkflowCounts[p][q]

----------------------------------------------------------------------------
\* everything poll p holds
LocalsOf(p) ==
    << pc[p], metaOutcome[p], listOutcome[p], metaCalls[p], listCalls[p],
       queuesWithConcurrency[p], queueWorkflowCounts[p], ret[p], response[p],
       failedBefore[p] >>

\* max(1, max of the demands) on the two maps of a poll
EstimateOfMaps(qwc, counts) ==
    SetMax({1} \cup { CeilDiv(BacklogOf(counts, q), qwc[q]) : q \in DOMAIN qwc })

(* C11: overlapping polls share nothing: a step of one poll leaves what   *)
(* the others hold untouched, a poll's answer is the estimate of the      *)
(* concurrency and backlog maps this poll fetched itself, whatever the    *)
(* other poll fetched or returned, and a poll in flight can always take   *)
(* its next step, wherever the other polls stand.                         *)
C11_NoSharedState ==
    /\ [][ \A p \in Polls :
            /\ LocalsOf(p)' # LocalsOf(p) =>
                  \A r \in Polls \ {p} : LocalsOf(r)' = LocalsOf(r)
            /\ ListsNow(p) =>
                  /\ queuesWithConcurrency'[p] = queuesWithConcurrency[p]
                  /\ queueWorkflowCounts'[p] = BacklogMap(workflows)
                  /\ ret'[p] =
                        Ok(EstimateOfMaps(queuesWithConcurrency[p],
                                          BacklogMap(workflows)))
            /\ AnswersWhatReturned(p) ]_vars
    /\ [](\A p \in Polls :
            /\ Listed(p) =>
                  response[p] = Metric(EstimateOfMaps(queuesWithConcurrency[p],
                                                      queueWorkflowCounts[p]))
            /\ pc[p] = "fetch" => ENABLED FetchQueueMetadata(p)
            /\ pc[p] = "list" => ENABLED ListAndCompute(p)
            /\ pc[p] = "answer" => ENABLED Respond(p, FALSE)
            /\ pc[p] \in {"idle", "done"} => ENABLED MetricsRequest(p))

\* two polls in flight at once, and before that two polls that counted
\* different backlogs; here one has returned the larger value and the other
\* is between its two reads while the backlog is gone
C11_Witness ==
    \E p, r \in Polls :
        /\ p # r
        /\ Listed(p) /\ ret[p].value > 1
        /\ pc[r] = "list"
        /\ BacklogMap(workflows) = EmptyMap

====
